---------------------------- MODULE Spec2Model ----------------------------
(***************************************************************************)
(* Employee events dashboard: the Flask front end (src/main.py) and the    *)
(* FastHTML front end (src/dashboard.py) over one SQLite database and one  *)
(* pickled classifier.                                                     *)
(*                                                                         *)
(* Conventions.                                                            *)
(*  - Python's None and Optional values are sequences of length 0 or 1.    *)
(*  - Dates are day numbers; ISO date strings compare as their days do.    *)
(*  - A probability is a number of tenths, 0..10 (0.4 is 4, 0.7 is 7).     *)
(*  - A table is a sequence of rows in rowid order.                        *)
(***************************************************************************)
EXTENDS Integers, Sequences, FiniteSets, TLC

VARIABLES
    app,              \* which front end serves: "flask" or "fasthtml"
    employee,         \* table employee(id, name, team_id)
    team,             \* table team(id, name, shift, manager)
    employee_events,  \* table employee_events(employee_id, event_date, positive_events, negative_events)
    notes,            \* table notes(employee_id, note, created_at)
    model_file,       \* assets/model.pkl: absent, unreadable, or a pickled classifier
    th,               \* the handler threads: each one's position and locals
    figs,             \* pyplot's figure registry: figure number -> figure content
    active,           \* pyplot's figure numbers, least recently active first
    call              \* the last direct call of a data-access function and its result

vars == <<app, employee, team, employee_events, notes, model_file, th, figs, active, call>>

dbvars == <<employee, team, employee_events, notes>>

-----------------------------------------------------------------------------
(* Bounds of the model *)

\* Rows in employee_events and notes together, in the served database
MaxRows == 1
\* Rows in employee_events when the data-access functions are called directly
MaxEvents == 2
\* Rows in notes when the notes section is examined
MaxNotes == 6

(* Program constants *)

Days == 30
HighThreshold == 7
MediumThreshold == 4
NotesShown == 5

Today == Days + 70
EmpIds == {1, 2}
TeamIds == {1}
Counts == {0, 1}
Dates == {Today - Days - 1, Today - Days, Today}

-----------------------------------------------------------------------------
(* Optional values *)

None == <<>>
Some(v) == <<v>>
IsNone(x) == x = <<>>
Val(x) == x[1]

Range(s) == {s[i] : i \in DOMAIN s}

(* SUM(positive_events), SUM(negative_events) over a sequence of rows *)
RECURSIVE SumPositive(_)
SumPositive(rows) ==
    IF rows = <<>> THEN 0 ELSE Head(rows).positive_events + SumPositive(Tail(rows))

RECURSIVE SumNegative(_)
SumNegative(rows) ==
    IF rows = <<>> THEN 0 ELSE Head(rows).negative_events + SumNegative(Tail(rows))

(* ORDER BY event_date: ascending, rows of one date in rowid order *)
RECURSIVE InsertByDate(_, _)
InsertByDate(r, s) ==
    IF s = <<>> THEN <<r>>
    ELSE IF Head(s).event_date <= r.event_date THEN <<Head(s)>> \o InsertByDate(r, Tail(s))
    ELSE <<r>> \o s

RECURSIVE OrderByEventDate(_)
OrderByEventDate(s) ==
    IF s = <<>> THEN <<>>
    ELSE InsertByDate(s[Len(s)], OrderByEventDate(SubSeq(s, 1, Len(s) - 1)))

(* Faulty variant: ascending for descending *)
RECURSIVE InsertByCreatedDesc_Ascending(_, _)
InsertByCreatedDesc_Ascending(r, s) ==
    IF s = <<>> THEN <<r>>
    ELSE IF Head(s).created_at <= r.created_at
         THEN <<Head(s)>> \o InsertByCreatedDesc_Ascending(r, Tail(s))
    ELSE <<r>> \o s

(* ORDER BY created_at DESC: descending, rows of one instant in rowid order *)
RECURSIVE InsertByCreatedDesc(_, _)
InsertByCreatedDesc(r, s) ==
    IF s = <<>> THEN <<r>>
    ELSE IF Head(s).created_at >= r.created_at THEN <<Head(s)>> \o InsertByCreatedDesc(r, Tail(s))
    ELSE <<r>> \o s

RECURSIVE OrderByCreatedAtDesc(_)
OrderByCreatedAtDesc(s) ==
    IF s = <<>> THEN <<>>
    ELSE InsertByCreatedDesc(s[Len(s)], OrderByCreatedAtDesc(SubSeq(s, 1, Len(s) - 1)))

-----------------------------------------------------------------------------
(* The data-access layer: what each SQL statement returns on the tables *)

(* date('now', '-{} days'.format(days)) *)
WindowStart(days) == Today - days

(* get_employee_events: the DataFrame as a sequence of rows *)
EventRow(r) ==
    [event_date |-> r.event_date,
     positive_events |-> r.positive_events,
     negative_events |-> r.negative_events,
     net_events |-> r.positive_events - r.negative_events]

(* Faulty variant: the window's first day left out (> for >=) *)
InWindow_Strict(r, employee_id, days) ==
    /\ r.employee_id = employee_id
    /\ r.event_date > WindowStart(days)

(* Faulty variant: the event_date condition dropped *)
InWindow_AnyDate(r, employee_id, days) == r.employee_id = employee_id

InWindow(r, employee_id, days) ==
    /\ r.employee_id = employee_id
    /\ r.event_date >= WindowStart(days)

get_employee_events(employee_id, days) ==
    LET sel == SelectSeq(employee_events, LAMBDA r : InWindow(r, employee_id, days))
        ord == OrderByEventDate(sel)
    IN  [i \in DOMAIN ord |-> EventRow(ord[i])]

(* Faulty variant: the WHERE e.id = ? filter dropped *)
SummaryJoin_NoWhere(e, t, employee_id) ==
    SelectSeq(employee_events,
              LAMBDA ev : e.team_id = t.id /\ e.id = ev.employee_id)

(* Faulty variant: the join condition ON e.id = ev.employee_id dropped *)
SummaryJoin_NoOn(e, t, employee_id) ==
    SelectSeq(employee_events,
              LAMBDA ev : e.team_id = t.id /\ e.id = employee_id)

(* Faulty variant: the summary restricted to the chart's trailing window *)
SummaryJoin_Windowed(e, t, employee_id) ==
    SelectSeq(employee_events,
              LAMBDA ev : /\ e.team_id = t.id
                          /\ e.id = ev.employee_id
                          /\ e.id = employee_id
                          /\ ev.event_date >= WindowStart(Days))

(* get_employee_summary: employee JOIN team JOIN employee_events WHERE e.id = ? *)
(* The joined rows of one (employee, team) group, as event rows in rowid order *)
SummaryJoin(e, t, employee_id) ==
    SelectSeq(employee_events,
              LAMBDA ev : /\ e.team_id = t.id
                          /\ e.id = ev.employee_id
                          /\ e.id = employee_id)

SummaryGroups(employee_id) ==
    {g \in employee \X team : SummaryJoin(g[1], g[2], employee_id) # <<>>}

(* AVG(column): the column's sum over the group's rows and their number *)
(* (the quotient num / den, kept as the pair)                            *)
(* Faulty variant: the average taken over the rows of the whole table *)
Avg_OverTable(sum, rows) == [num |-> sum, den |-> Len(employee_events)]

Avg(sum, rows) == [num |-> sum, den |-> Len(rows)]

SummaryRow(g, employee_id) ==
    LET rows == SummaryJoin(g[1], g[2], employee_id)
    IN  [name |-> g[1].name,
         team_name |-> g[2].name,
         shift |-> g[2].shift,
         manager |-> g[2].manager,
         total_positive |-> SumPositive(rows),
         total_negative |-> SumNegative(rows),
         avg_positive |-> Avg(SumPositive(rows), rows),
         avg_negative |-> Avg(SumNegative(rows), rows)]

(* df.iloc[0].to_dict() if not df.empty else None *)
get_employee_summary(employee_id) ==
    LET groups == SummaryGroups(employee_id)
    IN  IF groups = {} THEN None
        ELSE Some(SummaryRow(CHOOSE g \in groups : TRUE, employee_id))

(* get_employee_notes: SELECT note, created_at ... ORDER BY created_at DESC *)
get_employee_notes(employee_id) ==
    LET sel == SelectSeq(notes, LAMBDA n : n.employee_id = employee_id)
        ord == OrderByCreatedAtDesc(sel)
    IN  [i \in DOMAIN ord |-> [note |-> ord[i].note, created_at |-> ord[i].created_at]]

(* get_employees: employee JOIN team, as a set of rows (the list's order is not modelled) *)
get_employees ==
    {[id |-> g[1].id, name |-> g[1].name, team_name |-> g[2].name,
      shift |-> g[2].shift, manager |-> g[2].manager] :
        g \in {h \in employee \X team : h[1].team_id = h[2].id}}

(* get_teams: SELECT * FROM team *)
get_teams == team

(* QueryBase.event_counts(id) of the Employee subclass (name = "employee"): *)
(* employee JOIN employee_events USING(employee_id) WHERE the employee's   *)
(* key is id, GROUP BY event_date ORDER BY event_date.  The employee's key *)
(* column is the field id of the rows of employee here.                    *)
EventCountsJoin(id) ==
    SelectSeq(employee_events,
              LAMBDA ev : \E e \in employee : e.id = ev.employee_id /\ e.id = id)

(* Faulty variant: the aggregates taken over all joined rows, not per event_date *)
EventCountsGroup_AllRows(rows, d) == rows

(* The rows of one GROUP BY group *)
EventCountsGroup(rows, d) == SelectSeq(rows, LAMBDA r : r.event_date = d)

(* ORDER BY event_date over the groups: the dates in ascending order *)
RECURSIVE OrderDates(_)
OrderDates(ds) ==
    IF ds = {} THEN <<>>
    ELSE LET first == CHOOSE d \in ds : \A e \in ds : d <= e
         IN  <<first>> \o OrderDates(ds \ {first})

event_counts(id) ==
    LET rows == EventCountsJoin(id)
        ds == OrderDates({rows[i].event_date : i \in DOMAIN rows})
    IN  [i \in DOMAIN ds |->
            [event_date |-> ds[i],
             positive_events |-> SumPositive(EventCountsGroup(rows, ds[i])),
             negative_events |-> SumNegative(EventCountsGroup(rows, ds[i]))]]

-----------------------------------------------------------------------------
(* The model artefact and the inference call *)

(* A pickled classifier: any map from the two features to a probability.   *)
(* The family used here is a clamped linear score in positive and negative *)
(* totals; it is not symmetric in its two features.                        *)
Classifiers ==
    {[intercept |-> i, coef |-> <<-4, 3>>] : i \in {MediumThreshold, HighThreshold + 1}}

Clamp(x) == IF x < 0 THEN 0 ELSE IF x > 10 THEN 10 ELSE x

(* model.predict_proba(features)[0][1] *)
predict_proba(clf, features) ==
    Clamp(clf.intercept + clf.coef[1] * features[1] + clf.coef[2] * features[2])

NoClassifier == [intercept |-> 0, coef |-> <<0, 0>>]

(* assets/model.pkl: absent; present but not unpicklable; or a pickled classifier *)
ModelFiles ==
    {[exists |-> FALSE, loadable |-> FALSE, clf |-> NoClassifier],
     [exists |-> TRUE, loadable |-> FALSE, clf |-> NoClassifier]}
        \cup {[exists |-> TRUE, loadable |-> TRUE, clf |-> c] : c \in Classifiers}

(* np.array([[summary['total_positive'], summary['total_negative']]]) *)
Features(summary) == <<summary.total_positive, summary.total_negative>>

-----------------------------------------------------------------------------
(* Requests *)

Digits == {"0", "1", "2", "3", "4", "5", "6", "7", "8", "9"}

DigitVal(c) ==
    CASE c = "0" -> 0 [] c = "1" -> 1 [] c = "2" -> 2 [] c = "3" -> 3 [] c = "4" -> 4
      [] c = "5" -> 5 [] c = "6" -> 6 [] c = "7" -> 7 [] c = "8" -> 8 [] c = "9" -> 9

RECURSIVE DigitsVal(_)
DigitsVal(s) ==
    IF s = <<>> THEN 0 ELSE 10 * DigitsVal(SubSeq(s, 1, Len(s) - 1)) + DigitVal(s[Len(s)])

AllDigits(s) == s # <<>> /\ \A i \in DOMAIN s : s[i] \in Digits

(* Faulty variant: a text that is no number read as 0 instead of raising *)
ParseInt_Lenient(text) ==
    IF AllDigits(text) THEN Some(DigitsVal(text))
    ELSE IF text # <<>> /\ Head(text) = "-" /\ AllDigits(Tail(text))
         THEN Some(0 - DigitsVal(Tail(text)))
    ELSE Some(0)

(* int(text): Some(n), or None for ValueError.  A text is a sequence of characters. *)
ParseInt(text) ==
    IF AllDigits(text) THEN Some(DigitsVal(text))
    ELSE IF text # <<>> /\ Head(text) = "-" /\ AllDigits(Tail(text))
         THEN Some(0 - DigitsVal(Tail(text)))
    ELSE None

(* The values a client sends for employee_id: None when the parameter is absent *)
ParamTexts == {<<>>, <<"x">>, <<"0">>, <<"1">>, <<"2">>, <<"3">>, <<"-", "1">>}
Params == {None} \cup {Some(x) : x \in ParamTexts}

Methods == {"GET", "POST"}

Requests ==
    {[path |-> "/", method |-> m, param |-> None] : m \in Methods}
        \cup {[path |-> "/employee_dashboard", method |-> m, param |-> q] :
                 m \in Methods, q \in Params}

NoRequest == [path |-> "", method |-> "", param |-> None]

(* Faulty variant: every route registered for both methods *)
AllowedMethods_Both(a, path) == {"GET", "POST"}

(* The methods each route is registered for *)
AllowedMethods(a, path) ==
    IF a = "flask" THEN {"GET"}
    ELSE IF path = "/" THEN {"GET"}
    ELSE {"POST"}

-----------------------------------------------------------------------------
(* Presentation: risk tier, templates, chart image *)

(* Python truthiness of a float-or-None, of an int-or-None, of a str-or-None *)
Truthy(x) == ~IsNone(x) /\ Val(x) # 0
TruthyImg(x) == ~IsNone(x)

(* Faulty variant: the thresholds taken inclusively (>= for >) *)
RiskAssessment_Inclusive(risk_prob) ==
    IF Truthy(risk_prob)
    THEN IF Val(risk_prob) >= HighThreshold THEN <<"High", "danger">>
         ELSE IF Val(risk_prob) >= MediumThreshold THEN <<"Medium", "warning">>
         ELSE <<"Low", "success">>
    ELSE <<"Low", "success">>

(* risk_level, risk_color from risk_prob *)
RiskAssessment(risk_prob) ==
    IF Truthy(risk_prob)
    THEN IF Val(risk_prob) > HighThreshold THEN <<"High", "danger">>
         ELSE IF Val(risk_prob) > MediumThreshold THEN <<"Medium", "warning">>
         ELSE <<"Low", "success">>
    ELSE <<"Low", "success">>

(* "%.1f%%" % (risk_prob * 100) if risk_prob else "N/A"; f"{risk_prob:.1%}" if risk_prob else "N/A" *)
RiskText(risk_prob) ==
    IF Truthy(risk_prob) THEN [na |-> FALSE, percent |-> Val(risk_prob) * 10]
    ELSE [na |-> TRUE, percent |-> 0]

NoRiskText == [na |-> FALSE, percent |-> 0]

Take(s, n) == SubSeq(s, 1, IF Len(s) < n THEN Len(s) ELSE n)

BlankResponse ==
    [status |-> 0, kind |-> "", employee |-> None, risk_level |-> "", risk_color |-> "",
     risk_text |-> NoRiskText, chart |-> None, no_chart_message |-> FALSE,
     notes |-> <<>>, no_notes_message |-> FALSE, employees |-> {}, teams |-> {}]

Page(kind) == [BlankResponse EXCEPT !.status = 200, !.kind = kind]
ErrorResponse(status) == [BlankResponse EXCEPT !.status = status, !.kind = "error"]

(* The dashboard fragment both front ends build from the handler's locals *)
DashboardFragment(l) ==
    [BlankResponse EXCEPT
        !.status = 200,
        !.kind = "dashboard",
        !.employee = l.summary,
        !.risk_level = l.risk_level,
        !.risk_color = l.risk_color,
        !.risk_text = RiskText(l.risk_prob),
        !.chart = IF TruthyImg(l.chart_img) THEN l.chart_img ELSE None,
        !.no_chart_message = ~TruthyImg(l.chart_img),
        !.notes = IF l.notes # <<>> THEN Take(l.notes, NotesShown) ELSE <<>>,
        !.no_notes_message = (l.notes = <<>>)]

(* render_template_string(EMPLOYEE_DASHBOARD_TEMPLATE, ...) *)
RenderTemplate(l) ==
    IF ~Truthy(l.employee_id) THEN Page("select_employee")
    ELSE IF IsNone(l.summary) THEN Page("not_found")
    ELSE DashboardFragment(l)

(* The three series create_performance_chart plots from the events DataFrame *)
ChartLines(df) ==
    << [label |-> "Positive Events",
        points |-> [i \in DOMAIN df |-> <<df[i].event_date, df[i].positive_events>>]],
       [label |-> "Negative Events",
        points |-> [i \in DOMAIN df |-> <<df[i].event_date, df[i].negative_events>>]],
       [label |-> "Net Events",
        points |-> [i \in DOMAIN df |-> <<df[i].event_date, df[i].net_events>>]] >>

(* base64 of the PNG of a figure: determined by what the figure shows *)
Png(content) == [png |-> content]

-----------------------------------------------------------------------------
(* Handler threads *)

Threads == {1, 2}

Idle ==
    [pc |-> "idle", req |-> NoRequest, employee_id |-> None, summary |-> None,
     notes |-> <<>>, model |-> None, risk_summary |-> None, features |-> <<>>,
     risk_prob |-> None, events_df |-> <<>>, fig |-> 0, chart_img |-> None,
     risk_level |-> "", risk_color |-> "", employees |-> {}, teams |-> {},
     conn |-> "none", exc |-> "", open |-> 0, log |-> <<>>,
     response |-> BlankResponse]

(* The positions at which the handler is inside a data-access function *)
DbCalls ==
    {"get_employee_summary", "get_employee_notes", "risk_summary",
     "get_employee_events", "get_employees", "get_teams"}

Respond(l, r) == [l EXCEPT !.pc = "done", !.response = r]

(* An exception leaves the handler: the framework's error response *)
Raise(l, e) == Respond([l EXCEPT !.exc = e], ErrorResponse(500))

(* The framework dispatches a request to the view function registered for *)
(* its path and method, or answers 405 Method Not Allowed.                *)
Dispatch(a, req) ==
    IF req.method \notin AllowedMethods(a, req.path)
    THEN Respond([Idle EXCEPT !.req = req], ErrorResponse(405))
    ELSE [Idle EXCEPT !.req = req,
                      !.pc = IF req.path = "/" THEN "get_employees" ELSE "employee_id"]

Receive(t) ==
    /\ th[t].pc = "idle"
    /\ \E req \in Requests : th' = [th EXCEPT ![t] = Dispatch(app, req)]
    /\ UNCHANGED <<app, dbvars, model_file, figs, active, call>>

(* main.py: request.args.get, the two early returns, int().               *)
(* dashboard.py: the framework converts the parameter to int before the   *)
(* call (a client error when it cannot), then the handler's early return. *)
EmployeeIdFlask(l) ==
    LET raw == l.req.param
    IN  IF IsNone(raw) \/ Val(raw) = <<>>
        THEN Respond(l, RenderTemplate([l EXCEPT !.employee_id = None]))
        ELSE IF IsNone(ParseInt(Val(raw)))
        THEN Respond(l, RenderTemplate([l EXCEPT !.employee_id = None]))
        ELSE [l EXCEPT !.employee_id = ParseInt(Val(raw)), !.pc = "get_employee_summary"]

EmployeeIdFastHTML(l) ==
    LET raw == l.req.param
    IN  IF IsNone(raw) \/ IsNone(ParseInt(Val(raw)))
        THEN Respond(l, ErrorResponse(400))
        ELSE IF Val(ParseInt(Val(raw))) = 0
        THEN Respond([l EXCEPT !.employee_id = ParseInt(Val(raw))], Page("select_employee"))
        ELSE [l EXCEPT !.employee_id = ParseInt(Val(raw)), !.pc = "get_employee_summary"]

ReadEmployeeId(t) ==
    /\ th[t].pc = "employee_id"
    /\ th' = [th EXCEPT ![t] = IF app = "flask" THEN EmployeeIdFlask(@)
                                ELSE EmployeeIdFastHTML(@)]
    /\ UNCHANGED <<app, dbvars, model_file, figs, active, call>>

(* conn = get_db_connection() *)
get_db_connection(l) ==
    [l EXCEPT !.conn = "open", !.open = @ + 1, !.log = Append(@, l.pc)]

Connect(t) ==
    /\ th[t].pc \in DbCalls
    /\ th[t].conn = "none"
    /\ th' = [th EXCEPT ![t] = get_db_connection(@)]
    /\ UNCHANGED <<app, dbvars, model_file, figs, active, call>>

(* pd.read_sql_query(...) inside try: the function's result, kept in the  *)
(* local the caller assigns it to                                         *)
QueryResult(l) ==
    CASE l.pc = "get_employee_summary" ->
            [l EXCEPT !.summary = get_employee_summary(Val(l.employee_id))]
      [] l.pc = "get_employee_notes" ->
            [l EXCEPT !.notes = get_employee_notes(Val(l.employee_id))]
      [] l.pc = "risk_summary" ->
            [l EXCEPT !.risk_summary = get_employee_summary(Val(l.employee_id))]
      [] l.pc = "get_employee_events" ->
            [l EXCEPT !.events_df = get_employee_events(Val(l.employee_id), Days)]
      [] l.pc = "get_employees" -> [l EXCEPT !.employees = get_employees]
      [] l.pc = "get_teams" -> [l EXCEPT !.teams = get_teams]

ReadSql(t) ==
    /\ th[t].pc \in DbCalls
    /\ th[t].conn = "open"
    /\ \/ th' = [th EXCEPT ![t] = [QueryResult(@) EXCEPT !.conn = "read"]]
       \/ th' = [th EXCEPT ![t] = [@ EXCEPT !.conn = "read", !.exc = "DatabaseError"]]
    /\ UNCHANGED <<app, dbvars, model_file, figs, active, call>>

(* A pandas Series has no truth value: `not summary` raises ValueError *)
NotSummaryRaises(a, summary) == a = "fasthtml" /\ ~IsNone(summary)

(* Faulty variant: the early return for a missing summary dropped *)
AfterSummary_NoEarlyReturn(a, l) == [l EXCEPT !.pc = "get_employee_notes"]

(* if summary is None: return ... (main.py); if not summary: return ... (dashboard.py) *)
AfterSummary(a, l) ==
    IF IsNone(l.summary)
    THEN Respond(l, IF a = "flask" THEN RenderTemplate(l) ELSE Page("not_found"))
    ELSE IF NotSummaryRaises(a, l.summary) THEN Raise(l, "ValueError")
    ELSE [l EXCEPT !.pc = "get_employee_notes"]

(* Where the caller goes on with the function's result *)
AfterCall(a, l) ==
    CASE l.pc = "get_employee_summary" -> AfterSummary(a, l)
      [] l.pc = "get_employee_notes" -> [l EXCEPT !.pc = "load_model"]
      [] l.pc = "risk_summary" ->
            IF IsNone(l.risk_summary)
            THEN [l EXCEPT !.risk_prob = None, !.pc = "get_employee_events"]
            ELSE IF NotSummaryRaises(a, l.risk_summary) THEN Raise(l, "ValueError")
            ELSE [l EXCEPT !.pc = "predict_proba"]
      [] l.pc = "get_employee_events" ->
            IF l.events_df = <<>>
            THEN [l EXCEPT !.chart_img = None, !.pc = "risk_assessment"]
            ELSE [l EXCEPT !.pc = "subplots"]
      [] l.pc = "get_employees" -> [l EXCEPT !.pc = "get_teams"]
      [] l.pc = "get_teams" ->
            Respond(l, [Page("home") EXCEPT !.employees = l.employees, !.teams = l.teams])

(* Faulty variant: close() after the query instead of in finally: skipped when it raises *)
conn_close_NoFinally(l) ==
    IF l.exc # "" THEN [l EXCEPT !.conn = "none"]
    ELSE [l EXCEPT !.conn = "none", !.open = @ - 1]

(* finally: conn.close(), then the return or the exception *)
conn_close(l) == [l EXCEPT !.conn = "none", !.open = @ - 1]

CloseConnection(t) ==
    /\ th[t].pc \in DbCalls
    /\ th[t].conn = "read"
    /\ th' = [th EXCEPT ![t] =
                 IF @.exc # "" THEN Raise(conn_close(@), @.exc) ELSE AfterCall(app, conn_close(@))]
    /\ UNCHANGED <<app, dbvars, model_file, figs, active, call>>

(* predict_recruitment_risk: model = load_model(); if not model: return None *)
load_model(file) ==
    IF file.exists THEN Some(file.clf) ELSE None

(* Faulty variant: FileNotFoundError not caught *)
LoadModelRaises_NoExcept(file) == ~file.exists \/ ~file.loadable

(* Faulty variant: every exception caught (except Exception for except FileNotFoundError) *)
LoadModelRaises_CatchAll(file) == FALSE

(* pickle.load raising on a file that exists: not caught by load_model *)
LoadModelRaises(file) == file.exists /\ ~file.loadable

AfterLoadModel(l, file) ==
    IF LoadModelRaises(file) THEN Raise(l, "UnpicklingError")
    ELSE IF IsNone(load_model(file))
    THEN [l EXCEPT !.model = None, !.risk_prob = None, !.pc = "get_employee_events"]
    ELSE [l EXCEPT !.model = load_model(file), !.pc = "risk_summary"]

(* Faulty variant: the artefact opened for writing ('wb' for 'rb'), which truncates it *)
LoadModel_Truncates(t) ==
    /\ th[t].pc = "load_model"
    /\ th' = [th EXCEPT ![t] =
                 AfterLoadModel([@ EXCEPT !.log = Append(@, "load_model")], model_file)]
    /\ model_file' = [exists |-> TRUE, loadable |-> FALSE, clf |-> NoClassifier]
    /\ UNCHANGED <<app, dbvars, figs, active, call>>

(* with open(MODEL_PATH, 'rb') as f: the file is read, never written *)
LoadModel(t) ==
    /\ th[t].pc = "load_model"
    /\ th' = [th EXCEPT ![t] =
                 AfterLoadModel([@ EXCEPT !.log = Append(@, "load_model")], model_file)]
    /\ UNCHANGED <<app, dbvars, model_file, figs, active, call>>

(* features = np.array([[...]]); risk_prob = model.predict_proba(features)[0][1] *)
predict_recruitment_risk(l) ==
    [l EXCEPT !.features = Features(Val(l.risk_summary)),
              !.risk_prob = Some(predict_proba(Val(l.model), Features(Val(l.risk_summary)))),
              !.log = Append(@, "predict_proba"),
              !.pc = "get_employee_events"]

PredictProba(t) ==
    /\ th[t].pc = "predict_proba"
    /\ th' = [th EXCEPT ![t] = predict_recruitment_risk(@)]
    /\ UNCHANGED <<app, dbvars, model_file, figs, active, call>>

(* predict_recruitment_risk(employee_id) called on its own, as a function *)
(* of the database and the model file: what it returns, or the exception  *)
(* it raises.  a names the module: "flask" for main.py (if summary is     *)
(* None), "fasthtml" for dashboard.py (if not summary).                   *)
RiskResult(exc, features, risk_prob) ==
    [exc |-> exc, features |-> features, risk_prob |-> risk_prob]

PredictRisk(a, employee_id, file) ==
    IF LoadModelRaises(file) THEN RiskResult("UnpicklingError", <<>>, None)
    ELSE IF IsNone(load_model(file)) THEN RiskResult("", <<>>, None)
    ELSE LET summary == get_employee_summary(employee_id)
         IN  IF IsNone(summary) THEN RiskResult("", <<>>, None)
             ELSE IF NotSummaryRaises(a, summary) THEN RiskResult("ValueError", <<>>, None)
             ELSE RiskResult("", Features(Val(summary)),
                             Some(predict_proba(Val(load_model(file)), Features(Val(summary)))))

-----------------------------------------------------------------------------
(* pyplot: one registry of figures for the whole process, the last one     *)
(* active being the "current figure" that plt.savefig and plt.close use.   *)

NewFigure == CHOOSE n \in 1..(Cardinality(DOMAIN figs) + 1) : n \notin DOMAIN figs

CurrentFigure == active[Len(active)]

(* The figure objects still referenced: registered, or held by a handler *)
Referenced(reg, threads) == Range(reg) \cup {threads[u].fig : u \in DOMAIN threads}

Gc(fs, reg, threads) ==
    [n \in DOMAIN fs \cap Referenced(reg, threads) |-> fs[n]]

(* plt.style.use(...); fig, ax = plt.subplots(...): a new, empty, current figure *)
Subplots(t) ==
    /\ th[t].pc = "subplots"
    /\ figs' = [n \in DOMAIN figs \cup {NewFigure} |->
                   IF n = NewFigure THEN <<>> ELSE figs[n]]
    /\ active' = Append(active, NewFigure)
    /\ th' = [th EXCEPT ![t] = [@ EXCEPT !.fig = NewFigure, !.pc = "plot"]]
    /\ UNCHANGED <<app, dbvars, model_file, call>>

(* ax.plot(...) three times and the styling: on the handler's own axes *)
Plot(t) ==
    /\ th[t].pc = "plot"
    /\ figs' = [figs EXCEPT ![th[t].fig] = ChartLines(th[t].events_df)]
    /\ th' = [th EXCEPT ![t] = [@ EXCEPT !.pc = "savefig"]]
    /\ UNCHANGED <<app, dbvars, model_file, active, call>>

(* plt.savefig(img_buffer, ...): saves the current figure, creating one if *)
(* there is none; img_str = base64.b64encode(...).decode()                 *)
Savefig(t) ==
    /\ th[t].pc = "savefig"
    /\ IF active = <<>>
       THEN /\ figs' = [n \in DOMAIN figs \cup {NewFigure} |->
                           IF n = NewFigure THEN <<>> ELSE figs[n]]
            /\ active' = <<NewFigure>>
            /\ th' = [th EXCEPT ![t] =
                         [@ EXCEPT !.chart_img = Some(Png(<<>>)), !.pc = "close"]]
       ELSE /\ th' = [th EXCEPT ![t] =
                         [@ EXCEPT !.chart_img = Some(Png(figs[CurrentFigure])),
                                   !.pc = "close"]]
            /\ UNCHANGED <<figs, active>>
    /\ UNCHANGED <<app, dbvars, model_file, call>>

(* plt.close(): closes the current figure, if any; return img_str *)
ClosePlot(t) ==
    /\ th[t].pc = "close"
    /\ active' = IF active = <<>> THEN <<>> ELSE SubSeq(active, 1, Len(active) - 1)
    /\ th' = [th EXCEPT ![t] = [@ EXCEPT !.fig = 0, !.pc = "risk_assessment"]]
    /\ figs' = Gc(figs, active', th')
    /\ UNCHANGED <<app, dbvars, model_file, call>>

(* The risk assessment and the response: lines 846-864 of main.py, 295-394 *)
(* of dashboard.py                                                         *)
employee_dashboard(a, l) ==
    LET ra == RiskAssessment(l.risk_prob)
        l2 == [l EXCEPT !.risk_level = ra[1], !.risk_color = ra[2]]
    IN  Respond(l2, IF a = "flask" THEN RenderTemplate(l2) ELSE DashboardFragment(l2))

RiskAssessmentAndRender(t) ==
    /\ th[t].pc = "risk_assessment"
    /\ th' = [th EXCEPT ![t] = employee_dashboard(app, @)]
    /\ UNCHANGED <<app, dbvars, model_file, figs, active, call>>

(* The response is sent; the thread takes the next request with fresh locals *)
Finish(t) ==
    /\ th[t].pc = "done"
    /\ th' = [th EXCEPT ![t] = Idle]
    /\ figs' = Gc(figs, active, th')
    /\ UNCHANGED <<app, dbvars, model_file, active, call>>

(* Outside the program: the model artefact is put in place, replaced or removed *)
ModelFileChange ==
    /\ \E f \in ModelFiles \ {model_file} : model_file' = f
    /\ UNCHANGED <<app, dbvars, th, figs, active, call>>

-----------------------------------------------------------------------------
(* The database: the rows the tables may hold.  Ids are primary keys and   *)
(* every employee_id and team_id refers to an existing row.                *)

TeamRows == {[id |-> i, name |-> "team", shift |-> "Day", manager |-> "mgr"] : i \in TeamIds}

EmployeeRows == {[id |-> i, name |-> i, team_id |-> 1] : i \in EmpIds}

EventRows ==
    [employee_id : EmpIds, event_date : Dates, positive_events : Counts,
     negative_events : Counts]

(* A note's text names the employee it was written about *)
NoteRows ==
    {[employee_id |-> e, note |-> <<"about", e>>, created_at |-> c] :
        e \in EmpIds, c \in {Today - 1, Today}}

Tables(rows, n) == UNION {[1..k -> rows] : k \in 0..n}

NoCall ==
    [fn |-> "", module |-> "", employee_id |-> 0, days |-> 0, rows |-> <<>>,
     summary |-> None, risk |-> RiskResult("", <<>>, None)]

InitTables ==
    /\ employee = EmployeeRows
    /\ team = TeamRows

InitProcess(workers) ==
    /\ app \in {"flask", "fasthtml"}
    /\ model_file \in ModelFiles
    /\ th = [t \in workers |-> Idle]
    /\ figs = <<>>
    /\ active = <<>>
    /\ call = NoCall

(* One worker serving requests one after another, over any small database *)
Init ==
    /\ InitTables
    /\ employee_events \in Tables(EventRows, MaxRows)
    /\ notes \in Tables(NoteRows, MaxRows - Len(employee_events))
    /\ InitProcess({1})

(* Two workers serving requests at the same time (app.run serves each  *)
(* request on a thread of its own), every employee having one event today *)
InitConc ==
    /\ InitTables
    /\ employee_events \in
          {tbl \in [1..Cardinality(EmpIds) -> EventRows] :
              \A i \in DOMAIN tbl : /\ tbl[i].employee_id = i
                                    /\ tbl[i].event_date = Today
                                    /\ tbl[i].positive_events = 1
                                    /\ tbl[i].negative_events = i - 1}
    /\ notes = <<>>
    /\ InitProcess(Threads)

(* The Flask application without a model file, over any notes table of up *)
(* to MaxNotes rows; employee 1 has one event, older than the chart's     *)
(* window, employee 2 none                                                 *)
InitNotes ==
    /\ InitTables
    /\ employee_events = <<[employee_id |-> 1, event_date |-> Today - Days - 1,
                            positive_events |-> 1, negative_events |-> 0]>>
    /\ notes \in Tables(NoteRows, MaxNotes)
    /\ app = "flask"
    /\ model_file \in {f \in ModelFiles : ~f.exists}
    /\ th = [t \in {1} |-> Idle]
    /\ figs = <<>>
    /\ active = <<>>
    /\ call = NoCall

(* No server: the data-access functions called directly on any small table *)
InitQuery ==
    /\ InitTables
    /\ employee_events \in Tables(EventRows, MaxEvents)
    /\ notes = <<>>
    /\ app = "flask"
    /\ model_file \in {f \in ModelFiles : f.exists => f.loadable}
    /\ th = <<>>
    /\ figs = <<>>
    /\ active = <<>>
    /\ call = NoCall

QueryIds == EmpIds \cup {0, 3}
QueryDays == {0, Days, Days + 1}

CallGetEmployeeEvents ==
    /\ call = NoCall
    /\ \E id \in QueryIds, days \in QueryDays :
          call' = [NoCall EXCEPT !.fn = "get_employee_events", !.employee_id = id,
                                 !.days = days, !.rows = get_employee_events(id, days)]
    /\ UNCHANGED <<app, dbvars, model_file, th, figs, active>>

CallGetEmployeeSummary ==
    /\ call = NoCall
    /\ \E id \in QueryIds :
          call' = [NoCall EXCEPT !.fn = "get_employee_summary", !.employee_id = id,
                                 !.summary = get_employee_summary(id)]
    /\ UNCHANGED <<app, dbvars, model_file, th, figs, active>>

(* predict_recruitment_risk of main.py or of dashboard.py *)
CallPredictRecruitmentRisk ==
    /\ call = NoCall
    /\ \E a \in {"flask", "fasthtml"}, id \in QueryIds :
          call' = [NoCall EXCEPT !.fn = "predict_recruitment_risk", !.module = a,
                                 !.employee_id = id,
                                 !.risk = PredictRisk(a, id, model_file)]
    /\ UNCHANGED <<app, dbvars, model_file, th, figs, active>>

(* Employee().event_counts(id) *)
CallEventCounts ==
    /\ call = NoCall
    /\ \E id \in QueryIds :
          call' = [NoCall EXCEPT !.fn = "event_counts", !.employee_id = id,
                                 !.rows = event_counts(id)]
    /\ UNCHANGED <<app, dbvars, model_file, th, figs, active>>

(* The caller is done with the result; the next call follows *)
Return ==
    /\ call # NoCall
    /\ call' = NoCall
    /\ UNCHANGED <<app, dbvars, model_file, th, figs, active>>

NextQuery ==
    \/ CallGetEmployeeEvents
    \/ CallGetEmployeeSummary
    \/ CallPredictRecruitmentRisk
    \/ CallEventCounts
    \/ Return

Next ==
    \/ \E t \in Threads : t \in DOMAIN th /\ Receive(t)
    \/ \E t \in Threads : t \in DOMAIN th /\ ReadEmployeeId(t)
    \/ \E t \in Threads : t \in DOMAIN th /\ Connect(t)
    \/ \E t \in Threads : t \in DOMAIN th /\ ReadSql(t)
    \/ \E t \in Threads : t \in DOMAIN th /\ CloseConnection(t)
    \/ \E t \in Threads : t \in DOMAIN th /\ LoadModel(t)
    \/ \E t \in Threads : t \in DOMAIN th /\ PredictProba(t)
    \/ \E t \in Threads : t \in DOMAIN th /\ Subplots(t)
    \/ \E t \in Threads : t \in DOMAIN th /\ Plot(t)
    \/ \E t \in Threads : t \in DOMAIN th /\ Savefig(t)
    \/ \E t \in Threads : t \in DOMAIN th /\ ClosePlot(t)
    \/ \E t \in Threads : t \in DOMAIN th /\ RiskAssessmentAndRender(t)
    \/ \E t \in Threads : t \in DOMAIN th /\ Finish(t)
    \/ ModelFileChange

Spec == Init /\ [][Next]_vars

SpecConc == InitConc /\ [][Next]_vars

SpecQuery == InitQuery /\ [][NextQuery]_vars

(* The steps a request takes when no model file is there and no event is *)
(* recent (no classifier call, no plotting), the model file left alone    *)
NextNotes ==
    \/ \E t \in Threads : t \in DOMAIN th /\ Receive(t)
    \/ \E t \in Threads : t \in DOMAIN th /\ ReadEmployeeId(t)
    \/ \E t \in Threads : t \in DOMAIN th /\ Connect(t)
    \/ \E t \in Threads : t \in DOMAIN th /\ ReadSql(t)
    \/ \E t \in Threads : t \in DOMAIN th /\ CloseConnection(t)
    \/ \E t \in Threads : t \in DOMAIN th /\ LoadModel(t)
    \/ \E t \in Threads : t \in DOMAIN th /\ RiskAssessmentAndRender(t)
    \/ \E t \in Threads : t \in DOMAIN th /\ Finish(t)

SpecNotes == InitNotes /\ [][NextNotes]_vars

-----------------------------------------------------------------------------
(* Vocabulary of the properties *)

Handlers == DOMAIN th

(* The thread has a response ready for a request its front end dispatched *)
(* to employee_dashboard                                                   *)
Answered(t) ==
    /\ th[t].pc = "done"
    /\ th[t].req.path = "/employee_dashboard"
    /\ th[t].response.status # 405

Dashboard(t) == Answered(t) /\ th[t].response.kind = "dashboard"

Called(t, what) == \E i \in DOMAIN th[t].log : th[t].log[i] = what

HasEmployeeRow(id) == \E e \in employee : e.id = id

EventIndexes(id) == {i \in DOMAIN employee_events : employee_events[i].employee_id = id}

(* The sum of a column over the rows of employee_events of one employee, *)
(* row by row over the table                                             *)
RECURSIVE TotalUpTo(_, _, _)
TotalUpTo(n, id, positive) ==
    IF n = 0 THEN 0
    ELSE TotalUpTo(n - 1, id, positive)
         + (IF employee_events[n].employee_id # id THEN 0
            ELSE IF positive THEN employee_events[n].positive_events
            ELSE employee_events[n].negative_events)

Total(id, positive) == TotalUpTo(Len(employee_events), id, positive)

-----------------------------------------------------------------------------
(* C1: for every risk probability p the model produces, the dashboard's   *)
(* tier is High if p > 0.7, Medium if 0.4 < p <= 0.7, Low if p <= 0.4     *)
(* (probabilities in tenths: 0.7 is 7, 0.4 is 4).                         *)
C1_TierPartition ==
    \A t \in Handlers :
        (Dashboard(t) /\ ~IsNone(th[t].risk_prob)) =>
            LET p == Val(th[t].risk_prob)
                tier == th[t].response.risk_level
            IN  /\ p \in 0..10
                /\ (p > 7) => tier = "High"
                /\ (p > 4 /\ p <= 7) => tier = "Medium"
                /\ (p <= 4) => tier = "Low"

C1_Witness ==
    \E t \in Handlers :
        /\ Dashboard(t)
        /\ th[t].risk_prob = Some(7)
        /\ th[t].response.risk_level = "Medium"

(* C2: when the model file is missing, load_model returns no model,       *)
(* predict_recruitment_risk returns no probability without calling the    *)
(* classifier, and the Flask dashboard is rendered with tier Low and the  *)
(* probability shown as N/A, with no error.                               *)
C2_LoadStep(t) ==
    (th[t].pc = "load_model" /\ th'[t].pc # "load_model" /\ ~model_file.exists) =>
        /\ IsNone(th'[t].model)
        /\ IsNone(th'[t].risk_prob)
        /\ th'[t].pc = "get_employee_events"

C2_Rendered(t) ==
    (/\ app = "flask"
     /\ th[t].pc = "done"
     /\ Called(t, "load_model")
     /\ IsNone(th[t].model)
     /\ th[t].exc \notin {"DatabaseError", "UnpicklingError"}) =>
        /\ th[t].response.status = 200
        /\ th[t].response.kind = "dashboard"
        /\ th[t].response.risk_level = "Low"
        /\ th[t].response.risk_text.na
        /\ ~Called(t, "predict_proba")
        /\ ~Called(t, "risk_summary")

C2_MissingModel ==
    /\ [][\A t \in Handlers : C2_LoadStep(t)]_vars
    /\ [](\A t \in Handlers : C2_Rendered(t))

C2_Witness ==
    \E t \in Handlers :
        /\ app = "flask"
        /\ ~model_file.exists
        /\ Dashboard(t)
        /\ Called(t, "load_model")
        /\ IsNone(th[t].model)
        /\ th[t].response.risk_text.na

(* C3: a /employee_dashboard request whose employee_id is a non-zero      *)
(* integer matching no employee row gets the "Employee not found" message *)
(* and not an error (the database answering its query).                   *)
C3_NotFound ==
    \A t \in Handlers :
        (/\ Answered(t)
         /\ ~IsNone(th[t].employee_id)
         /\ Val(th[t].employee_id) # 0
         /\ ~HasEmployeeRow(Val(th[t].employee_id))
         /\ th[t].exc # "DatabaseError") =>
            /\ th[t].response.status = 200
            /\ th[t].response.kind = "not_found"

C3_Witness ==
    \E t \in Handlers :
        /\ Answered(t)
        /\ th[t].employee_id = Some(3)
        /\ ~HasEmployeeRow(3)
        /\ th[t].response.kind = "not_found"
        /\ Called(t, "get_employee_summary")

(* C4: a request for an employee that is in the employee table and has no *)
(* rows in employee_events gets a response with no chart and the "no      *)
(* chart data" message, without an error.                                 *)
C4_NoEventsNoData ==
    \A t \in Handlers :
        (/\ Answered(t)
         /\ ~IsNone(th[t].employee_id)
         /\ HasEmployeeRow(Val(th[t].employee_id))
         /\ EventIndexes(Val(th[t].employee_id)) = {}
         /\ th[t].exc # "DatabaseError") =>
            /\ th[t].response.status = 200
            /\ IsNone(th[t].response.chart)
            /\ th[t].response.no_chart_message

(* C5: whenever get_employee_summary returns a summary, total_positive   *)
(* and total_negative are the sums of positive_events and negative_events *)
(* over all employee_events rows of that employee, each row once and no   *)
(* other employee's rows.                                                 *)
SummaryReturned ==
    call.fn = "get_employee_summary" /\ ~IsNone(call.summary)

C5_SummaryTotals ==
    SummaryReturned =>
        /\ Val(call.summary).total_positive = Total(call.employee_id, TRUE)
        /\ Val(call.summary).total_negative = Total(call.employee_id, FALSE)

C5_Witness ==
    /\ SummaryReturned
    /\ Cardinality(EventIndexes(call.employee_id)) = 2
    /\ Val(call.summary).total_positive = 2
    /\ Val(call.summary).total_negative = 1

(* The rows of one employee from a window start on *)
WindowIndexes(id, days) ==
    {i \in EventIndexes(id) : employee_events[i].event_date >= Today - days}

RECURSIVE WindowTotalUpTo(_, _, _)
WindowTotalUpTo(n, id, positive) ==
    IF n = 0 THEN 0
    ELSE WindowTotalUpTo(n - 1, id, positive)
         + (IF n \notin WindowIndexes(id, Days) THEN 0
            ELSE IF positive THEN employee_events[n].positive_events
            ELSE employee_events[n].negative_events)

WindowTotal(id, positive) == WindowTotalUpTo(Len(employee_events), id, positive)

(* C6, as claimed: the sums and averages of an employee's summary are     *)
(* computed over the employee's rows inside the trailing 30-day window,   *)
(* the rows get_employee_events returns for the chart.                    *)
C6_SummaryOverWindow ==
    SummaryReturned =>
        LET sm == Val(call.summary)
            n == Cardinality(WindowIndexes(call.employee_id, Days))
        IN  /\ sm.total_positive = WindowTotal(call.employee_id, TRUE)
            /\ sm.total_negative = WindowTotal(call.employee_id, FALSE)
            /\ sm.avg_positive = [num |-> WindowTotal(call.employee_id, TRUE), den |-> n]
            /\ sm.avg_negative = [num |-> WindowTotal(call.employee_id, FALSE), den |-> n]

(* C6, amended: the sums and averages are computed over all of the        *)
(* employee's rows whatever their date; the rows get_employee_events      *)
(* returns for the chart are the part of them inside the window, so the   *)
(* two agree exactly when the employee has no row older than the window.  *)
C6_SummaryOverAllRows ==
    SummaryReturned =>
        LET sm == Val(call.summary)
            id == call.employee_id
            n == Cardinality(EventIndexes(id))
        IN  /\ sm.avg_positive = [num |-> Total(id, TRUE), den |-> n]
            /\ sm.avg_negative = [num |-> Total(id, FALSE), den |-> n]
            /\ sm.total_positive >= WindowTotal(id, TRUE)
            /\ sm.total_negative >= WindowTotal(id, FALSE)
            /\ (WindowIndexes(id, Days) = EventIndexes(id)) =>
                  /\ sm.total_positive = WindowTotal(id, TRUE)
                  /\ sm.total_negative = WindowTotal(id, FALSE)
                  /\ Len(get_employee_events(id, Days)) = sm.avg_positive.den

C6_Witness ==
    /\ SummaryReturned
    /\ WindowIndexes(call.employee_id, Days) # {}
    /\ WindowIndexes(call.employee_id, Days) # EventIndexes(call.employee_id)
    /\ Val(call.summary).total_positive > WindowTotal(call.employee_id, TRUE)

(* C7: get_employee_events(employee_id, days) returns exactly the rows of *)
(* that employee dated on or after today minus days, in ascending         *)
(* event_date order, each with net_events = positive - negative.          *)
Matches(row, d, p, n) ==
    row.event_date = d /\ row.positive_events = p /\ row.negative_events = n

C7_EventsWindow ==
    (call.fn = "get_employee_events") =>
        /\ \A i \in DOMAIN call.rows :
              /\ call.rows[i].net_events
                    = call.rows[i].positive_events - call.rows[i].negative_events
              /\ (i > 1) => call.rows[i - 1].event_date <= call.rows[i].event_date
        /\ \A d \in Dates, p \in Counts, n \in Counts :
              Cardinality({i \in DOMAIN call.rows : Matches(call.rows[i], d, p, n)})
                 = Cardinality({j \in EventIndexes(call.employee_id) :
                                   /\ Matches(employee_events[j], d, p, n)
                                   /\ d >= Today - call.days})

C7_Witness ==
    /\ call.fn = "get_employee_events"
    /\ call.days = Days
    /\ Len(employee_events) = 2
    /\ Len(call.rows) = 2
    /\ employee_events[1].event_date = Today
    /\ employee_events[2].event_date = Today - Days
    /\ call.rows[1].event_date = Today - Days
    /\ call.rows[1].net_events = 0 - 1

(* C8, as claimed: /employee_dashboard accepts GET and POST alike: no     *)
(* request to it is answered with method-not-allowed.                     *)
C8_GetAndPost ==
    \A t \in Handlers :
        (th[t].pc = "done" /\ th[t].req.path = "/employee_dashboard") =>
            th[t].response.status # 405

(* C8, amended: the Flask front end's /employee_dashboard accepts GET and *)
(* not POST, the FastHTML front end's accepts POST and not GET; a request *)
(* with the front end's own method reaches the handler, one with the      *)
(* other method is answered with method-not-allowed.                      *)
C8_OneMethodEach ==
    \A t \in Handlers :
        (th[t].pc = "done" /\ th[t].req.path = "/employee_dashboard") =>
            (th[t].response.status = 405
                <=> th[t].req.method # (IF app = "flask" THEN "GET" ELSE "POST"))

C8_Witness ==
    \E t \in Handlers :
        /\ th[t].pc = "done"
        /\ th[t].req.path = "/employee_dashboard"
        /\ app = "fasthtml"
        /\ th[t].req.method = "POST"
        /\ th[t].response.kind = "not_found"

(* C9: every database connection opened while serving a request is closed *)
(* before the request finishes, whether the query succeeds or raises; no  *)
(* connection stays open after a request, and a request has at most one   *)
(* connection open at a time.                                             *)
C9_ConnectionsClosed ==
    \A t \in Handlers :
        /\ th[t].open \in {0, 1}
        /\ (th[t].pc \in {"idle", "done"}) => th[t].open = 0
        /\ (th[t].pc \notin DbCalls) => th[t].open = 0

C9_Witness ==
    \E t \in Handlers :
        /\ th[t].pc = "done"
        /\ th[t].exc = "DatabaseError"
        /\ th[t].log = <<"get_employee_summary", "get_employee_notes", "load_model",
                        "risk_summary">>
        /\ th[t].open = 0

(* C10: requests share no mutable state: with two requests for different  *)
(* employees handled at the same time, each dashboard's chart is the      *)
(* chart of the requesting employee's own events, the one the request     *)
(* gets when it runs alone.                                               *)
ChartAlone(id) ==
    IF get_employee_events(id, Days) = <<>> THEN None
    ELSE Some(Png(ChartLines(get_employee_events(id, Days))))

(* Another thread is handling a request for a different employee *)
OtherEmployeeInFlight(t) ==
    \E u \in Handlers \ {t} :
        /\ th[u].pc # "idle"
        /\ ~IsNone(th[u].employee_id)
        /\ th[u].employee_id # th[t].employee_id

C10_ChartIsOwn ==
    \A t \in Handlers :
        (Dashboard(t) /\ OtherEmployeeInFlight(t)) =>
            th[t].response.chart = ChartAlone(Val(th[t].employee_id))

(* C11: every step of every request (GET / and /employee_dashboard, any   *)
(* parameter, any outcome, errors included) leaves the four tables and    *)
(* the model file as they were.                                           *)
C11_RequestsReadOnly ==
    [][(th' # th) =>
          /\ employee' = employee
          /\ team' = team
          /\ employee_events' = employee_events
          /\ notes' = notes
          /\ model_file' = model_file]_vars

C11_Witness ==
    \E t \in Handlers :
        /\ Dashboard(t)
        /\ Called(t, "predict_proba")
        /\ Called(t, "get_employee_events")
        /\ ~IsNone(th[t].response.chart)

(* C12: the model file is read anew by every request and never cached:   *)
(* while the file is added or removed between requests, each dashboard    *)
(* shows N/A exactly when the file was absent when that request read it,  *)
(* and a prediction when it was present, whatever earlier requests saw.   *)
(* th[t].model is what load_model returned to this request.               *)
C12_DisplayFollowsFile ==
    \A t \in Handlers :
        (Dashboard(t) /\ Called(t, "load_model")) =>
            (th[t].response.risk_text.na <=> IsNone(th[t].model))

(* The part of C12 about caching alone: the load step of every request   *)
(* returns what the file holds at that moment.                            *)
C12_LoadReadsFile ==
    [][\A t \in Handlers :
          (th[t].pc = "load_model" /\ th'[t].pc \notin {"load_model", "done"}) =>
              th'[t].model = (IF model_file.exists THEN Some(model_file.clf) ELSE None)]_vars

(* C13: only a missing model file is handled.  When the file exists and  *)
(* loading it fails, or when a database query raises, the exception       *)
(* leaves the handler: the response is the framework's error response,    *)
(* never a dashboard, an N/A display or a "not found" message.            *)
C13_LoadFails(t) ==
    (/\ th[t].pc = "load_model"
     /\ th'[t] # th[t]
     /\ model_file.exists
     /\ ~model_file.loadable) =>
        /\ th'[t].pc = "done"
        /\ th'[t].exc = "UnpicklingError"
        /\ th'[t].response = ErrorResponse(500)

C13_QueryFails(t) ==
    (/\ th[t].pc \in DbCalls
     /\ th[t].exc = "DatabaseError"
     /\ th'[t] # th[t]) =>
        /\ th'[t].pc = "done"
        /\ th'[t].response = ErrorResponse(500)

C13_ErrorsPropagate ==
    /\ [][\A t \in Handlers : C13_LoadFails(t) /\ C13_QueryFails(t)]_vars
    /\ [](\A t \in Handlers :
            (th[t].pc = "done" /\ th[t].exc # "") =>
                /\ th[t].response.status = 500
                /\ th[t].response.kind = "error"
                /\ ~th[t].response.risk_text.na
                /\ th[t].response.risk_level = "")

C13_Witness ==
    \E t \in Handlers :
        /\ th[t].pc = "done"
        /\ th[t].exc = "UnpicklingError"
        /\ model_file.exists
        /\ ~model_file.loadable
        /\ Called(t, "get_employee_notes")
        /\ th[t].response = ErrorResponse(500)

(* C14: for an employee with a summary and a model that loads,           *)
(* predict_recruitment_risk (of main.py and of dashboard.py) passes the   *)
(* classifier the vector (total_positive, total_negative), in that order, *)
(* the totals being the sums over all of the employee's event rows, and   *)
(* returns the classifier's class-1 probability on that vector.           *)
C14_FeaturesAndProbability ==
    (/\ call.fn = "predict_recruitment_risk"
     /\ model_file.exists
     /\ model_file.loadable
     /\ HasEmployeeRow(call.employee_id)
     /\ EventIndexes(call.employee_id) # {}) =>
        LET x == <<Total(call.employee_id, TRUE), Total(call.employee_id, FALSE)>>
        IN  /\ call.risk.exc = ""
            /\ call.risk.features = x
            /\ call.risk.risk_prob = Some(predict_proba(model_file.clf, x))

(* The answer of main.py's employee_dashboard for an integer employee_id, *)
(* on the tables as they are and with the model a request loaded          *)
FlaskAnswer(id, model) ==
    LET summary == get_employee_summary(id)
        l0 == [Idle EXCEPT !.employee_id = Some(id), !.summary = summary]
    IN  IF id = 0 \/ IsNone(summary) THEN RenderTemplate(l0)
        ELSE LET risk == IF IsNone(model) THEN None
                         ELSE Some(predict_proba(Val(model), Features(Val(summary))))
                 l1 == [l0 EXCEPT !.notes = get_employee_notes(id),
                                  !.risk_prob = risk,
                                  !.chart_img = ChartAlone(id)]
             IN  employee_dashboard("flask", l1).response

(* C15: the two front ends are equivalent on /employee_dashboard: for    *)
(* every database, model file and integer employee_id, the answer of     *)
(* either has the outcome kind (prompt, not found, dashboard) main.py     *)
(* gives and, for a dashboard, the same tier, N/A-or-probability display, *)
(* chart presence and notes.                                              *)
C15_FrontEndsAgree ==
    \A t \in Handlers :
        (/\ Answered(t)
         /\ ~IsNone(th[t].employee_id)
         /\ th[t].exc \notin {"DatabaseError", "UnpicklingError"}) =>
            LET f == FlaskAnswer(Val(th[t].employee_id), th[t].model)
                r == th[t].response
            IN  /\ r.kind = f.kind
                /\ (r.kind = "dashboard") =>
                      /\ r.risk_level = f.risk_level
                      /\ r.risk_text = f.risk_text
                      /\ IsNone(r.chart) = IsNone(f.chart)
                      /\ r.notes = f.notes

(* C16: in every summary, avg_positive and avg_negative are              *)
(* total_positive and total_negative divided by the number of the         *)
(* employee's employee_events rows, and that number is at least 1: no     *)
(* summary exists for an employee without rows.  An average is the pair   *)
(* of its numerator and denominator.                                      *)
C16_AverageIsTotalOverRows ==
    SummaryReturned =>
        LET sm == Val(call.summary)
            n == Cardinality(EventIndexes(call.employee_id))
        IN  /\ n >= 1
            /\ sm.avg_positive.den = n
            /\ sm.avg_negative.den = n
            /\ sm.avg_positive.num = sm.total_positive
            /\ sm.avg_negative.num = sm.total_negative

C16_Witness ==
    /\ SummaryReturned
    /\ Len(employee_events) = 2
    /\ Cardinality(EventIndexes(call.employee_id)) = 1
    /\ Val(call.summary).avg_positive = [num |-> 1, den |-> 1]
    /\ Val(call.summary).avg_negative = [num |-> 0, den |-> 1]

(* The sum of a column over the rows of one employee on one date, row by *)
(* row over the table                                                     *)
RECURSIVE DateTotalUpTo(_, _, _, _)
DateTotalUpTo(n, id, d, positive) ==
    IF n = 0 THEN 0
    ELSE DateTotalUpTo(n - 1, id, d, positive)
         + (IF employee_events[n].employee_id # id \/ employee_events[n].event_date # d
            THEN 0
            ELSE IF positive THEN employee_events[n].positive_events
            ELSE employee_events[n].negative_events)

DateTotal(id, d, positive) == DateTotalUpTo(Len(employee_events), id, d, positive)

(* C17: event_counts(id) of Employee returns one row for each date on    *)
(* which the employee has events and no other row, each with the sums of  *)
(* positive_events and negative_events over the employee's rows of that   *)
(* date, the rows in ascending event_date order; no events, no rows.      *)
C17_EventCounts ==
    (call.fn = "event_counts") =>
        /\ \A d \in Dates :
              Cardinality({i \in DOMAIN call.rows : call.rows[i].event_date = d})
                 = (IF \E j \in EventIndexes(call.employee_id) :
                          employee_events[j].event_date = d
                    THEN 1 ELSE 0)
        /\ \A i \in DOMAIN call.rows :
              /\ call.rows[i].event_date \in Dates
              /\ call.rows[i].positive_events
                    = DateTotal(call.employee_id, call.rows[i].event_date, TRUE)
              /\ call.rows[i].negative_events
                    = DateTotal(call.employee_id, call.rows[i].event_date, FALSE)
              /\ (i > 1) => call.rows[i - 1].event_date < call.rows[i].event_date
        /\ (EventIndexes(call.employee_id) = {}) => call.rows = <<>>

C17_Witness ==
    /\ call.fn = "event_counts"
    /\ Len(employee_events) = 2
    /\ Cardinality(EventIndexes(call.employee_id)) = 2
    /\ employee_events[1].event_date = employee_events[2].event_date
    /\ Len(call.rows) = 1
    /\ call.rows[1].positive_events = 2
    /\ call.rows[1].negative_events = 1

(* C18: for an employee whose summary exists, the Flask dashboard has a  *)
(* chart image exactly when at least one of the employee's event rows is  *)
(* dated within the trailing 30 days; without one the dashboard is still  *)
(* rendered (header, risk, totals, notes) and shows "No chart data        *)
(* available" where the chart would be.                                   *)
C18_ChartIffRecentRows ==
    \A t \in Handlers :
        (/\ app = "flask"
         /\ Answered(t)
         /\ ~IsNone(th[t].employee_id)
         /\ HasEmployeeRow(Val(th[t].employee_id))
         /\ EventIndexes(Val(th[t].employee_id)) # {}
         /\ th[t].exc = "") =>
            LET id == Val(th[t].employee_id)
                r == th[t].response
            IN  /\ r.kind = "dashboard"
                /\ ~IsNone(r.chart) <=> WindowIndexes(id, Days) # {}
                /\ r.no_chart_message <=> WindowIndexes(id, Days) = {}
                /\ ~IsNone(r.employee)
                /\ Val(r.employee).name = id
                /\ Val(r.employee).total_positive = Total(id, TRUE)
                /\ r.risk_level \in {"Low", "Medium", "High"}
                /\ r.notes = Take(get_employee_notes(id), NotesShown)
                /\ r.no_notes_message <=> r.notes = <<>>

C18_Witness ==
    \E t \in Handlers :
        /\ Dashboard(t)
        /\ EventIndexes(Val(th[t].employee_id)) # {}
        /\ WindowIndexes(Val(th[t].employee_id), Days) = {}
        /\ IsNone(th[t].response.chart)
        /\ th[t].response.no_chart_message
        /\ Called(t, "predict_proba")

(* C19: a dashboard shows "N/A" exactly when no prediction was obtained; *)
(* whenever the model gave a probability, 0 included, it is shown as a    *)
(* percentage (tenths times 10).                                          *)
C19_NAIffNoPrediction ==
    \A t \in Handlers :
        Dashboard(t) =>
            /\ th[t].response.risk_text.na <=> IsNone(th[t].risk_prob)
            /\ ~IsNone(th[t].risk_prob) =>
                  th[t].response.risk_text.percent = Val(th[t].risk_prob) * 10

(* C20: every employee get_employees offers for selection can be         *)
(* selected: a Flask /employee_dashboard request with that employee's id, *)
(* no error occurring, is answered with that employee's dashboard, not    *)
(* with the prompt and not with "Employee not found".                     *)
C20_OfferedIsSelectable ==
    \A t \in Handlers :
        (/\ app = "flask"
         /\ Answered(t)
         /\ ~IsNone(th[t].employee_id)
         /\ \E e \in get_employees : e.id = Val(th[t].employee_id)
         /\ th[t].exc = "") =>
            /\ th[t].response.kind = "dashboard"
            /\ ~IsNone(th[t].response.employee)
            /\ Val(th[t].response.employee).name = Val(th[t].employee_id)

(* C21: in the Flask front end a /employee_dashboard request whose       *)
(* employee_id is absent, empty or not an integer is answered with the    *)
(* "Please select an employee" prompt: no database connection is opened,  *)
(* the model is not loaded and no error is raised.                        *)
NoInteger(param) ==
    \/ IsNone(param)
    \/ Val(param) = <<>>
    \/ \E i \in DOMAIN Val(param) : Val(param)[i] \notin Digits \cup {"-"}

C21_PromptWithoutDatabase ==
    \A t \in Handlers :
        (app = "flask" /\ Answered(t) /\ NoInteger(th[t].req.param)) =>
            /\ th[t].response.status = 200
            /\ th[t].response.kind = "select_employee"
            /\ th[t].log = <<>>
            /\ th[t].open = 0
            /\ IsNone(th[t].model)
            /\ th[t].exc = ""

C21_Witness ==
    \E t \in Handlers :
        /\ app = "flask"
        /\ Answered(t)
        /\ th[t].req.param = Some(<<"x">>)
        /\ th[t].response.kind = "select_employee"
        /\ th[t].log = <<>>

(* C22: within one /employee_dashboard request the steps come in the     *)
(* order summary query, notes query, model load (with the prediction's    *)
(* own summary query and the classifier call when a model was loaded),    *)
(* events query; and a request whose summary is absent ends after the     *)
(* summary query: no notes query, no model load, no events query.         *)
StepsWithModel ==
    <<"get_employee_summary", "get_employee_notes", "load_model", "risk_summary",
      "predict_proba", "get_employee_events">>

StepsWithoutModel ==
    <<"get_employee_summary", "get_employee_notes", "load_model", "get_employee_events">>

IsPrefix(p, s) == Len(p) <= Len(s) /\ p = SubSeq(s, 1, Len(p))

C22_StepOrder ==
    \A t \in Handlers :
        (th[t].req.path = "/employee_dashboard") =>
            /\ IsPrefix(th[t].log, StepsWithModel) \/ IsPrefix(th[t].log, StepsWithoutModel)
            /\ (/\ th[t].pc = "done"
                /\ Called(t, "get_employee_summary")
                /\ get_employee_summary(Val(th[t].employee_id)) = None) =>
                    th[t].log = <<"get_employee_summary">>

C22_Witness ==
    \E t \in Handlers :
        /\ Dashboard(t)
        /\ th[t].log = StepsWithModel

(* The notes of one employee in the table, and those among them written *)
(* at one instant                                                         *)
NoteIndexes(id) == {i \in DOMAIN notes : notes[i].employee_id = id}

NotesAt(id, c) == {i \in NoteIndexes(id) : notes[i].created_at = c}

ShownAt(shown, c) == {i \in DOMAIN shown : shown[i].created_at = c}

(* C23: the dashboard shows at most 5 notes: all of them notes of the    *)
(* requested employee, newest first, and none of the employee's notes     *)
(* left out is newer than one shown (they are the 5 most recent); when    *)
(* the employee has no notes the "No notes available" message is shown.   *)
C23_FiveMostRecentNotes ==
    \A t \in Handlers :
        Dashboard(t) =>
            LET id == Val(th[t].employee_id)
                shown == th[t].response.notes
                n == Cardinality(NoteIndexes(id))
                times == {notes[i].created_at : i \in DOMAIN notes}
            IN  /\ Len(shown) = (IF n < 5 THEN n ELSE 5)
                /\ \A i \in DOMAIN shown :
                      /\ shown[i].note = <<"about", id>>
                      /\ (i > 1) => shown[i - 1].created_at >= shown[i].created_at
                /\ \A c \in times :
                      /\ Cardinality(ShownAt(shown, c)) <= Cardinality(NotesAt(id, c))
                      /\ (Cardinality(ShownAt(shown, c)) < Cardinality(NotesAt(id, c))) =>
                            \A i \in DOMAIN shown : shown[i].created_at >= c
                /\ \A i \in DOMAIN shown : shown[i].created_at \in times
                /\ th[t].response.no_notes_message <=> n = 0

C23_Witness ==
    \E t \in Handlers :
        /\ Dashboard(t)
        /\ th[t].employee_id = Some(1)
        /\ Len(notes) = 6
        /\ Cardinality(NoteIndexes(1)) = 6
        /\ notes[2].created_at = Today - 1
        /\ Cardinality(NotesAt(1, Today)) = 5
        /\ Len(th[t].response.notes) = 5
        /\ \A i \in DOMAIN th[t].response.notes :
              th[t].response.notes[i].created_at = Today

=============================================================================
